---- MODULE Spec2Model ----
(***************************************************************************)
(* Simulation period / state progression engine of the SQL Server growth   *)
(* simulator: the period clock (growth_utils.calculate_next_simulation_    *)
(* period), the per-server state store (load_server_state /                *)
(* save_server_state), the cumulative I/O counters (generate_raw_io_data)  *)
(* and the orchestration in growth_simulator (simulate_server, main).      *)
(*                                                                         *)
(* A datetime is a record [ordinal, hour]: ordinal counts calendar days    *)
(* from 2025-05-01, minutes and seconds are always zero in this program.   *)
(* An ISO string is the pair <<ordinal, hour>>.                            *)
(*                                                                         *)
(* The growth model (generate_raw_size_data, generate_raw_table_data,      *)
(* generate_raw_autogrowth_events and the sizes initialize_database_state  *)
(* draws) is specified by SpecGrowth, which calls each function directly   *)
(* on arguments drawn from bounded sets. Sizes are integers in millionths  *)
(* of a GB; a value rounded to 3 decimals is an integer in thousandths of  *)
(* a GB. A random draw is a choice from a grid over its interval, both end *)
(* points included; a rounding that falls on an exact half can go either   *)
(* way, since the binary value the program rounds is not the decimal one.  *)
(***************************************************************************)
EXTENDS Integers, Sequences, FiniteSets, TLC

VARIABLES
    configs,            \* the configuration files of the installation
    state_file,         \* Server<n>/growth_data/server_state.json, per server
    pc,                 \* position of main: the server its loop simulates next, 0 when main is not running
    run_no,             \* number of invocations of main started so far
    faults,             \* number of exceptional events so far (exceptions raised
                        \* while processing a database, failed saves, resets)
    server_num,         \* the server of the latest call of simulate_server, 0 before any
    server_state,       \* that call's in-memory store when it returned
    simulation_period,  \* the period that call computed (line 264)
    snapshots_created,  \* that call's list of processed databases
    snapshots,          \* the snapshot files that call wrote, by database name
    main_period,        \* the period the latest invocation of main computed from
                        \* Server1's state and printed (line 333), None before any
    main_result,        \* what the latest invocation of main returned ("True" or
                        \* "False"), "None" until it returns
    log,                \* the warnings and errors the latest call of simulate_server logged
    call                \* the latest direct call of a growth-model function or of
                        \* the period repair: its name, its arguments and what it
                        \* returned or found

vars == <<configs, state_file, pc, run_no, faults, server_num, server_state,
          simulation_period, snapshots_created, snapshots, main_period,
          main_result, log, call>>

-----------------------------------------------------------------------------
(* Bounds of the exploration *)

\* main is invoked at most MaxRuns times
MaxRuns == 3

\* at most MaxFaults exceptional events happen in a behaviour
MaxFaults == 2

\* a random draw from an interval takes one of UniformSteps + 1 evenly spaced
\* values, from its lower to its upper end
UniformSteps == 4

\* of the events generated for a period, the first MaxEvents are followed
\* through the loop and the sort; num_events itself is not bounded
MaxEvents == 2

-----------------------------------------------------------------------------
(* Values *)

\* Python's None, as the value of last_period before the first period
None == [none |-> TRUE]

\* the empty dict {}
EmptyStore == [n \in {} |-> None]

ServerTypes == {"oltp_production", "reporting_analytics", "reference_config"}

\* random.uniform(0.85, 1.15), in percent
IoJitter == {85, 115}

\* the places where processing one database can raise inside the try block
FailPoints == {"none", "init", "io", "tables", "save"}

\* outcomes of writing the state file
SaveOutcomes == {"ok", "open_failed", "write_failed", "mkdir_failed"}

-----------------------------------------------------------------------------
(* datetime *)

datetime(o, h) == [ordinal |-> o, hour |-> h]

\* mutant: h hours are added (d + timedelta(hours=h)) instead of set
replace_hour_add(d, h) ==
    [ordinal |-> d.ordinal + ((d.hour + h) \div 24), hour |-> (d.hour + h) % 24]

\* datetime.replace(hour=h)
replace_hour(d, h) == [d EXCEPT !.hour = h]

\* d + timedelta(days=n)
add_days(d, n) == [d EXCEPT !.ordinal = d.ordinal + n]

\* mutant: datetimes are ordered by their hour alone
total_hours_hour_only(d) == d.hour

\* hours elapsed since 2025-05-01T00:00:00; the order of datetimes
total_hours(d) == d.ordinal * 24 + d.hour

isoformat(d) == <<d.ordinal, d.hour>>

fromisoformat(s) == [ordinal |-> s[1], hour |-> s[2]]

\* mutant: the epoch given without its hour, datetime(2025, 5, 1)
start_date_midnight == datetime(0, 0)

\* datetime(2025, 5, 1, 6, 0, 0)
start_date == datetime(0, 6)

-----------------------------------------------------------------------------
(* growth_utils.calculate_next_simulation_period *)

\* the period_end values the loop over the store parses (lines 30-40)
period_ends(st) ==
    { fromisoformat(st[n].last_period.period_end) :
        n \in { m \in DOMAIN st : /\ "last_period" \in DOMAIN st[m]
                                  /\ st[m].last_period # None } }

\* mutant: the comparison is reversed, the earliest period_end is kept
latest_period_end_earliest(st) ==
    IF period_ends(st) = {} THEN None
    ELSE CHOOSE e \in period_ends(st) :
            \A f \in period_ends(st) : total_hours(e) <= total_hours(f)

\* latest_period_end after the loop; None when no entity has a period
latest_period_end(st) ==
    IF period_ends(st) = {} THEN None
    ELSE CHOOSE e \in period_ends(st) :
            \A f \in period_ends(st) : total_hours(f) <= total_hours(e)

\* mutant: the night period ends at 06:00 of the same day (no timedelta)
next_window_same_day(latest) ==
    IF latest # None
    THEN IF latest.hour = 6
         THEN [start |-> latest, end |-> replace_hour(latest, 18), type |-> "day"]
         ELSE [start |-> latest, end |-> replace_hour(latest, 6), type |-> "night"]
    ELSE [start |-> start_date, end |-> replace_hour(start_date, 18), type |-> "day"]

\* mutant: the period after an 18:00 end is labelled day as well
next_window_day_label(latest) ==
    IF latest # None
    THEN IF latest.hour = 6
         THEN [start |-> latest, end |-> replace_hour(latest, 18), type |-> "day"]
         ELSE [start |-> latest, end |-> replace_hour(add_days(latest, 1), 6),
               type |-> "day"]
    ELSE [start |-> start_date, end |-> replace_hour(start_date, 18), type |-> "day"]

\* mutant: after an 18:00 end the night is skipped, the next period is the
\* following day
next_window_skip_night(latest) ==
    IF latest # None
    THEN IF latest.hour = 6
         THEN [start |-> latest, end |-> replace_hour(latest, 18), type |-> "day"]
         ELSE [start |-> replace_hour(add_days(latest, 1), 6),
               end |-> replace_hour(add_days(latest, 1), 18), type |-> "day"]
    ELSE [start |-> start_date, end |-> replace_hour(start_date, 18), type |-> "day"]

\* the branch on latest_period_end.hour (lines 42-55)
next_window(latest) ==
    IF latest # None
    THEN IF latest.hour = 6
         THEN [start |-> latest, end |-> replace_hour(latest, 18), type |-> "day"]
         ELSE [start |-> latest, end |-> replace_hour(add_days(latest, 1), 6),
               type |-> "night"]
    ELSE [start |-> start_date, end |-> replace_hour(start_date, 18), type |-> "day"]

calculate_next_simulation_period(st) ==
    LET w == next_window(latest_period_end(st))
    IN  [period_start |-> isoformat(w.start),
         period_end   |-> isoformat(w.end),
         period_type  |-> w.type]

-----------------------------------------------------------------------------
(* growth_utils.generate_raw_io_data *)

\* the day/night multipliers, in tenths: <<reads, writes>>
io_multiplier(server_type, period_type) ==
    IF period_type = "day"
    THEN IF server_type = "oltp_production" THEN <<28, 28>>
         ELSE IF server_type = "reporting_analytics" THEN <<8, 8>>
         ELSE <<30, 12>>
    ELSE IF server_type = "oltp_production" THEN <<4, 4>>
         ELSE IF server_type = "reporting_analytics" THEN <<5, 40>>
         ELSE <<8, 8>>

\* 12 * 3600
total_seconds == 43200

\* int(x) of the quotient n / d: truncation toward zero
int_div(n, d) == IF n >= 0 THEN n \div d ELSE -((-n) \div d)

\* reads and writes of one period: int(rate * multiplier * 43200 * jitter)
io_counts(baseline, period, server_type, jr, jw) ==
    LET m == io_multiplier(server_type, period.period_type)
    IN  [reads  |-> int_div(baseline.reads_per_second_baseline * m[1]
                              * total_seconds * jr, 1000),
         writes |-> int_div(baseline.writes_per_second_baseline * m[2]
                              * total_seconds * jw, 1000)]

\* mutant: the counters are overwritten by the period's counts, not added to
generate_raw_io_data_overwrite(db_state, baseline, period, server_type, jr, jw) ==
    LET c == io_counts(baseline, period, server_type, jr, jw)
    IN  [reads  |-> c.reads,
         writes |-> c.writes,
         cumulative_reads  |-> c.reads,
         cumulative_writes |-> c.writes]

\* the returned io section; db_state is updated in place to the same counters
generate_raw_io_data(db_state, baseline, period, server_type, jr, jw) ==
    LET c == io_counts(baseline, period, server_type, jr, jw)
    IN  [reads  |-> c.reads,
         writes |-> c.writes,
         cumulative_reads  |-> db_state.cumulative_reads + c.reads,
         cumulative_writes |-> db_state.cumulative_writes + c.writes]

-----------------------------------------------------------------------------
(* growth_simulator *)

\* the databases with a problem scenario, by "Server<n>/<name>" (lines 85-90)
problem_databases ==
    [k \in {<<1, "TransactionLog_DB">>, <<2, "PrimaryStore_DB">>,
            <<2, "CustomerCore_DB">>, <<3, "DataWarehouse_DB">>} |->
        IF k = <<1, "TransactionLog_DB">> THEN "no_retention"
        ELSE IF k = <<2, "PrimaryStore_DB">> THEN "growing_fast"
        ELSE IF k = <<2, "CustomerCore_DB">> THEN "broken_cleanup"
        ELSE "archive_failure"]

\* the growth pattern given to a database when it is created (lines 95-118)
initial_growth_pattern(num, database_name, server_type) ==
    IF <<num, database_name>> \in DOMAIN problem_databases
    THEN problem_databases[<<num, database_name>>]
    ELSE IF server_type = "oltp_production" THEN "stable"
    ELSE IF server_type = "reporting_analytics" THEN "etl_cycle"
    ELSE "static"

\* the state of a database on its first run
initialize_database_state(num, database_name, server_type) ==
    [cumulative_reads |-> 0, cumulative_writes |-> 0,
     growth_pattern |-> initial_growth_pattern(num, database_name, server_type),
     last_period |-> None]

default_names ==
    [t \in ServerTypes |->
        IF t = "oltp_production"
        THEN <<"PrimaryStore_DB", "CustomerCore_DB", "OrderProcessing_DB">>
        ELSE IF t = "reporting_analytics"
        THEN <<"DataWarehouse_DB", "Analytics_DB", "Reporting_DB">>
        ELSE <<"ReferenceData_DB", "ConfigStore_DB">>]

get_database_names_for_server_type(server_type, cfg) ==
    IF server_type \in DOMAIN cfg.database_names
    THEN cfg.database_names[server_type]
    ELSE default_names[server_type]

\* mutant: the period recorded is the one following the database's own
\* last_period, not the period of the run
generate_snapshot_data_own(db_state, baseline, period, server_type, c) ==
    LET io == generate_raw_io_data(db_state, baseline, period, server_type,
                                   c.jr, c.jw)
        after_io == [db_state EXCEPT !.cumulative_reads = io.cumulative_reads,
                                     !.cumulative_writes = io.cumulative_writes]
        own == calculate_next_simulation_period([n \in {"self"} |-> db_state])
    IN  IF c.fail = "io" THEN db_state
        ELSE IF c.fail = "tables" THEN after_io
        ELSE [after_io EXCEPT !.last_period = own]

\* mutant: the pattern the growth model worked with, with its default stable,
\* is written back with the other fields
generate_snapshot_data_writes_pattern(db_state, baseline, period, server_type, c) ==
    LET io == generate_raw_io_data(db_state, baseline, period, server_type,
                                   c.jr, c.jw)
        after_io == [db_state EXCEPT !.cumulative_reads = io.cumulative_reads,
                                     !.cumulative_writes = io.cumulative_writes]
    IN  IF c.fail = "io" THEN db_state
        ELSE IF c.fail = "tables" THEN after_io
        ELSE [after_io EXCEPT !.last_period = period, !.growth_pattern = "stable"]

\* generate_snapshot_data: the in-place update of db_state, up to the point
\* where processing raises (fail), or all of it
generate_snapshot_data(db_state, baseline, period, server_type, c) ==
    LET io == generate_raw_io_data(db_state, baseline, period, server_type,
                                   c.jr, c.jw)
        after_io == [db_state EXCEPT !.cumulative_reads = io.cumulative_reads,
                                     !.cumulative_writes = io.cumulative_writes]
    IN  IF c.fail = "io" THEN db_state
        ELSE IF c.fail = "tables" THEN after_io
        ELSE [after_io EXCEPT !.last_period = period]

\* the snapshot record generate_snapshot_data returns (lines 188-206)
snapshot_record(db_state, baseline, period, server_type, c) ==
    [period_start |-> period.period_start,
     period_end   |-> period.period_end,
     period_type  |-> period.period_type,
     io |-> generate_raw_io_data(db_state, baseline, period, server_type,
                                 c.jr, c.jw)]

\* m with key k set to v (a dict assignment)
put(m, k, v) == [n \in DOMAIN m \cup {k} |-> IF n = k THEN v ELSE m[n]]

\* mutant: the period is computed again for each database, from the store as
\* the loop has left it (line 264 moved into the loop)
process_database_recompute(acc, num, database_name, server_type, cfg, period, c) ==
    IF database_name \notin DOMAIN acc.st /\ c.fail = "init"
    THEN acc
    ELSE LET known == IF database_name \in DOMAIN acc.st
                      THEN acc.st
                      ELSE put(acc.st, database_name,
                               initialize_database_state(num, database_name,
                                                         server_type))
             baseline == cfg.baseline_templates[server_type]
             again == calculate_next_simulation_period(acc.st)
             db_state == generate_snapshot_data(known[database_name], baseline,
                                                again, server_type, c)
             st == [known EXCEPT ![database_name] = db_state]
         IN  IF c.fail = "none"
             THEN [st |-> st,
                   created |-> Append(acc.created, database_name),
                   saved |-> put(acc.saved, database_name,
                                 snapshot_record(known[database_name], baseline,
                                                 again, server_type, c))]
             ELSE [st |-> st, created |-> acc.created, saved |-> acc.saved]

\* mutant: the database is appended to snapshots_created before its
\* processing, so it is listed even if the processing raises
process_database_listed_first(acc, num, database_name, server_type, cfg, period, c) ==
    IF database_name \notin DOMAIN acc.st /\ c.fail = "init"
    THEN [acc EXCEPT !.created = Append(acc.created, database_name)]
    ELSE LET known == IF database_name \in DOMAIN acc.st
                      THEN acc.st
                      ELSE put(acc.st, database_name,
                               initialize_database_state(num, database_name,
                                                         server_type))
             baseline == cfg.baseline_templates[server_type]
             db_state == generate_snapshot_data(known[database_name], baseline,
                                                period, server_type, c)
             st == [known EXCEPT ![database_name] = db_state]
         IN  IF c.fail = "none"
             THEN [st |-> st,
                   created |-> Append(acc.created, database_name),
                   saved |-> put(acc.saved, database_name,
                                 snapshot_record(known[database_name], baseline,
                                                 period, server_type, c))]
             ELSE [st |-> st, created |-> Append(acc.created, database_name),
                   saved |-> acc.saved]

\* mutant: every database is initialized, whether the loaded store has it or
\* not
process_database_reinit(acc, num, database_name, server_type, cfg, period, c) ==
    IF c.fail = "init"
    THEN acc
    ELSE LET known == put(acc.st, database_name,
                          initialize_database_state(num, database_name, server_type))
             baseline == cfg.baseline_templates[server_type]
             db_state == generate_snapshot_data(known[database_name], baseline,
                                                period, server_type, c)
             st == [known EXCEPT ![database_name] = db_state]
         IN  IF c.fail = "none"
             THEN [st |-> st,
                   created |-> Append(acc.created, database_name),
                   saved |-> put(acc.saved, database_name,
                                 snapshot_record(known[database_name], baseline,
                                                 period, server_type, c))]
             ELSE [st |-> st, created |-> acc.created, saved |-> acc.saved]

\* one iteration of the loop over database_names (the try block and its except)
process_database(acc, num, database_name, server_type, cfg, period, c) ==
    IF database_name \notin DOMAIN acc.st /\ c.fail = "init"
    THEN acc
    ELSE LET known == IF database_name \in DOMAIN acc.st
                      THEN acc.st
                      ELSE put(acc.st, database_name,
                               initialize_database_state(num, database_name,
                                                         server_type))
             baseline == cfg.baseline_templates[server_type]
             db_state == generate_snapshot_data(known[database_name], baseline,
                                                period, server_type, c)
             st == [known EXCEPT ![database_name] = db_state]
         IN  IF c.fail = "none"
             THEN [st |-> st,
                   created |-> Append(acc.created, database_name),
                   saved |-> put(acc.saved, database_name,
                                 snapshot_record(known[database_name], baseline,
                                                 period, server_type, c))]
             ELSE [st |-> st, created |-> acc.created, saved |-> acc.saved]

RECURSIVE process_databases(_, _, _, _, _, _, _, _)
process_databases(acc, num, names, i, server_type, cfg, period, choice) ==
    IF i > Len(names) THEN acc
    ELSE process_databases(
            process_database(acc, num, names[i], server_type, cfg, period,
                             choice[names[i]]),
            num, names, i + 1, server_type, cfg, period, choice)

-----------------------------------------------------------------------------
(* random draws *)

\* random.uniform(a, b), a <= b: the grid over [a, b]
uniform(a, b) == { a + ((b - a) * k) \div UniformSteps : k \in 0..UniformSteps }

\* dict.get(key, default)
get(d, key, default) == IF key \in DOMAIN d THEN d[key] ELSE default

max(a, b) == IF a >= b THEN a ELSE b

min(a, b) == IF a <= b THEN a ELSE b

-----------------------------------------------------------------------------
(* growth_utils.generate_raw_size_data *)

GrowthPatterns == {"stable", "no_retention", "growing_fast", "broken_cleanup",
                   "archive_failure", "etl_cycle", "static"}

\* mutant: the ETL load of etl_cycle is drawn by day as well
size_growth_etl_any(growth_pattern, period_type) ==
    IF growth_pattern = "stable" THEN uniform(-500, 500)
    ELSE IF growth_pattern = "no_retention" THEN uniform(500, 2000)
    ELSE IF growth_pattern = "growing_fast" THEN uniform(2000, 5000)
    ELSE IF growth_pattern = "broken_cleanup"
         THEN uniform(1000, 3000) \cup uniform(-1000, 500)
    ELSE IF growth_pattern = "archive_failure"
         THEN IF period_type = "night" THEN uniform(5000, 15000)
              ELSE uniform(500, 2000)
    ELSE IF growth_pattern = "etl_cycle"
         THEN uniform(5000, 10000) \cup uniform(-8000, -3000) \cup uniform(-500, 500)
    ELSE IF growth_pattern = "static" THEN uniform(-10, 10)
    ELSE uniform(-500, 500)

\* the growth drawn for a pattern and period type, in thousandths of a GB
\* (lines 129-170); the branches taken on random.random() are all possible
size_growth(growth_pattern, period_type) ==
    IF growth_pattern = "stable" THEN uniform(-500, 500)
    ELSE IF growth_pattern = "no_retention" THEN uniform(500, 2000)
    ELSE IF growth_pattern = "growing_fast" THEN uniform(2000, 5000)
    ELSE IF growth_pattern = "broken_cleanup"
         THEN uniform(1000, 3000) \cup uniform(-1000, 500)
    ELSE IF growth_pattern = "archive_failure"
         THEN IF period_type = "night" THEN uniform(5000, 15000)
              ELSE uniform(500, 2000)
    ELSE IF growth_pattern = "etl_cycle"
         THEN (IF period_type = "night" THEN uniform(5000, 10000) ELSE {})
              \cup uniform(-8000, -3000) \cup uniform(-500, 500)
    ELSE IF growth_pattern = "static" THEN uniform(-10, 10)
    ELSE uniform(-500, 500)

\* random.uniform(0.9, 1.1), in thousandths
size_variance == uniform(900, 1100)

\* min_size, in millionths of a GB (line 178)
min_size(server_type) ==
    IF server_type # "reference_config" THEN 10000000 ELSE 5000000

\* data_ratio, in percent (lines 182-187)
data_ratio(server_type) ==
    IF server_type = "oltp_production" THEN 75
    ELSE IF server_type = "reporting_analytics" THEN 90
    ELSE 95

\* round(x, 3) for x = q + n / d thousandths of a GB, 0 <= n: the nearest
\* thousandth, either neighbour on an exact half
round3(q, n, d) ==
    LET f == q + n \div d
        r == n % d
    IN  IF 2 * r < d THEN {f}
        ELSE IF 2 * r > d THEN {f + 1}
        ELSE {f, f + 1}

\* round(new_size * pct / 100, 3), new_size in millionths of a GB
round3_share(new_size, pct) ==
    LET k == new_size \div 1000
        r == new_size % 1000
    IN  round3((k * pct) \div 100, ((k * pct) % 100) * 1000 + r * pct, 100000)

\* mutant: four files from 500 GB on
file_count_500(new_size) == IF new_size < 500000000 THEN 2 ELSE 4

\* 2 if new_size < 50 else 4
file_count(new_size) == IF new_size < 50000000 THEN 2 ELSE 4

\* mutant: the log file is a quarter of the size for every server type
size_record_quarter_log(new_size, server_type) ==
    { [total_gb |-> t, data_file_gb |-> d, log_file_gb |-> l,
       file_count |-> file_count(new_size)] :
        t \in round3(new_size \div 1000, new_size % 1000, 1000),
        d \in round3_share(new_size, data_ratio(server_type)),
        l \in round3_share(new_size, 25) }

\* the dict returned for new_size (lines 189-194)
size_record(new_size, server_type) ==
    { [total_gb |-> t, data_file_gb |-> d, log_file_gb |-> l,
       file_count |-> file_count(new_size)] :
        t \in round3(new_size \div 1000, new_size % 1000, 1000),
        d \in round3_share(new_size, data_ratio(server_type)),
        l \in round3_share(new_size, 100 - data_ratio(server_type)) }

\* the draws of generate_raw_size_data and the new_size they give (lines
\* 124-179): growth before the variance in thousandths of a GB, the variance
\* in thousandths, new_size in millionths of a GB
new_sizes(db_state, period, server_type) ==
    LET current_size == get(db_state, "current_size_gb", 50000000)
        growth_pattern == get(db_state, "growth_pattern", "stable")
    IN  { [growth |-> g, variance |-> v,
           new_size |-> max(min_size(server_type), current_size + g * v)] :
            g \in size_growth(growth_pattern, period.period_type),
            v \in size_variance }

\* the results generate_raw_size_data can return
generate_raw_size_data(db_state, period, server_type) ==
    UNION { size_record(d.new_size, server_type) :
              d \in new_sizes(db_state, period, server_type) }

\* base_size as initialize_database_state draws it, in millionths of a GB
\* (lines 95-118)
base_size(num, database_name, server_type) ==
    IF <<num, database_name>> \in DOMAIN problem_databases
    THEN { IF <<num, database_name>> = <<1, "TransactionLog_DB">> THEN 400000000
           ELSE IF <<num, database_name>> = <<2, "PrimaryStore_DB">> THEN 500000000
           ELSE IF <<num, database_name>> = <<2, "CustomerCore_DB">> THEN 450000000
           ELSE 600000000 }
    ELSE IF server_type = "oltp_production" THEN uniform(250000000, 350000000)
    ELSE IF server_type = "reporting_analytics" THEN uniform(300000000, 500000000)
    ELSE uniform(10000000, 30000000)

\* the sizes of the state initialize_database_state returns (lines 146-157),
\* in ten-thousandths of a GB
initial_sizes(num, database_name, server_type) ==
    { [current_size_gb |-> b,
       data_file_gb |-> (b * 75) \div 100,
       log_file_gb |-> (b * 25) \div 100,
       growth_pattern |-> initial_growth_pattern(num, database_name, server_type)] :
        b \in { c \div 100 : c \in base_size(num, database_name, server_type) } }

-----------------------------------------------------------------------------
(* growth_utils.generate_raw_table_data *)

\* the cleanup history a table gets when it is first seen (lines 210-216)
initial_cleanup_history ==
    [last_cleanup_success |-> TRUE, failed_cleanups |-> 0,
     periods_since_cleanup |-> 0]

\* period_growth before the variance (lines 221-228)
base_period_growth(daily_growth, server_type, period_type) ==
    LET half == int_div(daily_growth * 5, 10)
    IN  IF server_type = "oltp_production"
        THEN int_div(half * (IF period_type = "day" THEN 15 ELSE 3), 10)
        ELSE IF server_type = "reporting_analytics"
        THEN int_div(half * (IF period_type = "day" THEN 5 ELSE 20), 10)
        ELSE half

\* period_growth: int(period_growth * random.uniform(0.7, 1.4)) (line 231)
period_growths(daily_growth, server_type, period_type) ==
    { int_div(base_period_growth(daily_growth, server_type, period_type) * v, 100) :
        v \in uniform(70, 140) }

\* rows_to_delete before the bounds (lines 321-329): the aggressive, the
\* balanced and the managed cleanup
rows_to_delete(period_growth) ==
    { int_div(period_growth * f, 100) : f \in uniform(120, 200) }
    \cup {period_growth}
    \cup { int_div(period_growth * f, 100) : f \in uniform(30, 90) }

\* mutant: the deletion is not capped at half of the rows
calculate_realistic_cleanup_uncapped(table_state, period_growth, growth_pattern) ==
    {<<FALSE, 0>>}
    \cup { <<TRUE, max(0, d)>> : d \in rows_to_delete(period_growth) }

\* _calculate_realistic_cleanup: the pairs (cleanup_occurred, rows_deleted) it
\* can return; the cleanup probability of the growth pattern lies strictly
\* between 0 and 1, so the cleanup can always run and can always be skipped
calculate_realistic_cleanup(table_state, period_growth, growth_pattern) ==
    LET max_deletion == int_div(table_state.rows * 5, 10)
    IN  {<<FALSE, 0>>}
        \cup { <<TRUE, max(0, min(d, max_deletion))>> :
                 d \in rows_to_delete(period_growth) }

\* the cleanup history after the period (lines 236-248)
next_cleanup_history(cleanup_history, cleanup_occurred, rows_deleted) ==
    IF cleanup_occurred
    THEN [periods_since_cleanup |-> 0,
          last_cleanup_success |-> rows_deleted > 0,
          failed_cleanups |-> IF rows_deleted > 0 THEN 0
                              ELSE cleanup_history.failed_cleanups + 1]
    ELSE [cleanup_history EXCEPT
             !.periods_since_cleanup = cleanup_history.periods_since_cleanup + 1]

\* mutant: the cleanup is computed for every table, flagged or not
generate_raw_table_data_any_cleanup(table_state, cleanup_history, server_type, period, growth_pattern) ==
    UNION {
        { [rows |-> max(1000, table_state.rows + period_growth - c[2]),
           rows_added |-> period_growth,
           rows_deleted |-> c[2],
           has_cleanup |-> table_state.has_cleanup,
           cleanup_occurred |-> c[1],
           cleanup_history |-> next_cleanup_history(cleanup_history, c[1], c[2])] :
            c \in calculate_realistic_cleanup(table_state, period_growth,
                                              growth_pattern) } :
        period_growth \in period_growths(table_state.daily_growth, server_type,
                                         period.period_type) }

\* one iteration of the loop over the tables (lines 208-268): the entries it
\* can append to tables_data, each with the cleanup history it leaves; the
\* table's rows are set to the entry's rows. size_gb, a function of rows and
\* avg_row_bytes, is left out
generate_raw_table_data(table_state, cleanup_history, server_type, period, growth_pattern) ==
    UNION {
        { [rows |-> max(1000, table_state.rows + period_growth - c[2]),
           rows_added |-> period_growth,
           rows_deleted |-> c[2],
           has_cleanup |-> table_state.has_cleanup,
           cleanup_occurred |-> c[1],
           cleanup_history |-> next_cleanup_history(cleanup_history, c[1], c[2])] :
            c \in IF table_state.has_cleanup
                  THEN calculate_realistic_cleanup(table_state, period_growth,
                                                   growth_pattern)
                  ELSE {<<FALSE, 0>>} } :
        period_growth \in period_growths(table_state.daily_growth, server_type,
                                         period.period_type) }

-----------------------------------------------------------------------------
(* growth_utils.generate_raw_autogrowth_events *)

\* random.randint(a, b): both ends and the middle
randint(a, b) == {a, (a + b) \div 2, b}

\* Server2/PrimaryStore_DB (line 347)
is_anomaly(num, database_name) == num = 2 /\ database_name = "PrimaryStore_DB"

\* mutant: the growth pattern is looked at before the anomaly
num_events_pattern_first(num, database_name, db_state, period) ==
    LET growth_pattern == get(db_state, "growth_pattern", "stable")
    IN  IF growth_pattern \in {"growing_fast", "no_retention", "broken_cleanup"}
        THEN randint(10, 30)
        ELSE IF growth_pattern = "stable" THEN randint(0, 5)
        ELSE IF is_anomaly(num, database_name) THEN randint(180, 250)
        ELSE randint(5, 20)

\* num_events (lines 349-379)
num_events(num, database_name, db_state, period) ==
    LET growth_pattern == get(db_state, "growth_pattern", "stable")
        server_type == get(db_state, "server_type", "oltp_production")
    IN  IF is_anomaly(num, database_name) THEN randint(180, 250)
        ELSE IF growth_pattern \in {"growing_fast", "no_retention", "broken_cleanup"}
        THEN randint(10, 30)
        ELSE IF growth_pattern = "stable" THEN randint(0, 5)
        ELSE IF growth_pattern = "archive_failure" THEN randint(5, 20)
        ELSE IF growth_pattern = "etl_cycle"
        THEN IF period.period_type = "night" THEN randint(20, 40)
             ELSE randint(5, 15)
        ELSE IF growth_pattern = "static" THEN randint(0, 3)
        ELSE IF server_type = "reference_config" THEN randint(0, 5)
        ELSE IF server_type = "reporting_analytics" THEN randint(15, 30)
        ELSE randint(30, 60)

\* random.uniform(0, total_seconds): seconds and tenths of a microsecond of
\* offsets at the start and at the end of the period; every offset is below
\* total_seconds
offsets ==
    { [seconds |-> 0, tenths |-> 4],
      [seconds |-> 0, tenths |-> 6],
      [seconds |-> total_seconds - 1, tenths |-> 9999996] }

\* timedelta(seconds=offset): the offset rounded to the nearest microsecond,
\* to the even one on an exact half
timedelta(offset) ==
    LET q == offset.tenths \div 10
        r == offset.tenths % 10
        us == IF r < 5 THEN q
              ELSE IF r > 5 THEN q + 1
              ELSE IF q % 2 = 0 THEN q ELSE q + 1
    IN  IF us = 1000000
        THEN [seconds |-> offset.seconds + 1, microseconds |-> 0]
        ELSE [seconds |-> offset.seconds, microseconds |-> us]

\* d + delta for a datetime d on the hour: a datetime with its second of the
\* day and its microsecond
add_timedelta(d, delta) ==
    LET sec == d.hour * 3600 + delta.seconds
    IN  [ordinal |-> d.ordinal + sec \div 86400,
         second_of_day |-> sec % 86400,
         microsecond |-> delta.microseconds]

\* the decimal digits of n, zero-padded to width w, as character codes
RECURSIVE digits(_, _)
digits(n, w) == IF w = 0 THEN <<>> ELSE Append(digits(n \div 10, w - 1), 48 + (n % 10))

\* mutant: the hour is written without its leading zero
isoformat_event_unpadded(t) ==
    LET hour == t.second_of_day \div 3600
    IN  <<50, 48, 50, 53, 45, 48, 53, 45>> \o digits(t.ordinal + 1, 2)
        \o <<84>> \o digits(hour, IF hour < 10 THEN 1 ELSE 2)
        \o <<58>> \o digits((t.second_of_day % 3600) \div 60, 2)
        \o <<58>> \o digits(t.second_of_day % 60, 2)
        \o (IF t.microsecond = 0 THEN <<>> ELSE <<46>> \o digits(t.microsecond, 6))

\* event_time.isoformat(): the characters of 2025-05-DDTHH:MM:SS, followed by
\* .ffffff unless the microsecond is 0 (days of May 2025)
isoformat_event(t) ==
    <<50, 48, 50, 53, 45, 48, 53, 45>> \o digits(t.ordinal + 1, 2)
    \o <<84>> \o digits(t.second_of_day \div 3600, 2)
    \o <<58>> \o digits((t.second_of_day % 3600) \div 60, 2)
    \o <<58>> \o digits(t.second_of_day % 60, 2)
    \o (IF t.microsecond = 0 THEN <<>> ELSE <<46>> \o digits(t.microsecond, 6))

\* a <= b for strings: the order the sort compares the keys by
str_le(a, b) ==
    \/ /\ Len(a) <= Len(b)
       /\ \A i \in 1..Len(a) : a[i] = b[i]
    \/ \E i \in 1..min(Len(a), Len(b)) :
          /\ a[i] < b[i]
          /\ \A j \in 1..(i - 1) : a[j] = b[j]

\* increment_mb (lines 394-401)
increment_mb(anomaly, file_type) ==
    IF anomaly THEN {8, 16, 32} \cup {64, 128}
    ELSE IF file_type = "data" THEN {256, 512}
    ELSE {64, 128}

\* the events one iteration of the loop can append (lines 386-430); the
\* sizes, the duration and the blocking figures of the event are left out.
\* event_time is the datetime the timestamp is formatted from
new_events(anomaly, period) ==
    UNION {
        { [timestamp |-> isoformat_event(
                            add_timedelta(fromisoformat(period.period_start),
                                          timedelta(offset))),
           event_time |-> add_timedelta(fromisoformat(period.period_start),
                                        timedelta(offset)),
           file_type |-> file_type,
           increment_mb |-> inc] : inc \in increment_mb(anomaly, file_type) } :
        offset \in offsets, file_type \in {"data", "log"} }

\* sorted with e put behind every element whose key is not above e's
RECURSIVE insert_sorted(_, _)
insert_sorted(sorted, e) ==
    IF sorted = <<>> THEN <<e>>
    ELSE IF str_le(sorted[Len(sorted)].timestamp, e.timestamp)
    THEN Append(sorted, e)
    ELSE Append(insert_sorted(SubSeq(sorted, 1, Len(sorted) - 1), e),
                sorted[Len(sorted)])

\* events.sort(key=lambda x: x['timestamp']): a stable sort on the strings
RECURSIVE sort_events(_)
sort_events(events) ==
    IF events = <<>> THEN <<>>
    ELSE insert_sorted(sort_events(SubSeq(events, 1, Len(events) - 1)),
                       events[Len(events)])

\* the lists of events the loop can generate when n events are drawn: the
\* first MaxEvents of them, in the order generated
generated_events(num, database_name, period, n) ==
    [1..min(n, MaxEvents) -> new_events(is_anomaly(num, database_name), period)]

\* the list generate_raw_autogrowth_events returns for the events generated
generate_raw_autogrowth_events(generated) == sort_events(generated)

-----------------------------------------------------------------------------
(* growth_utils.load_server_state / save_server_state *)

\* mutant: the metadata entry is returned with the databases
load_server_state_with_metadata(num) ==
    IF state_file[num].status = "ok"
    THEN state_file[num].content
    ELSE EmptyStore

\* the file is missing, unreadable or invalid: {}; otherwise its content
\* without the top-level key metadata
load_server_state(num) ==
    IF state_file[num].status = "ok"
    THEN [n \in DOMAIN state_file[num].content \ {"metadata"} |->
            state_file[num].content[n]]
    ELSE EmptyStore

\* logging.warning of load_server_state (line 454): the file exists but
\* reading or parsing it raised
load_warnings(file) ==
    IF file.status \in {"unreadable", "corrupt"} THEN {<<"warning", "load">>} ELSE {}

\* logging.error of save_server_state (line 472): open or json.dump raised
save_errors(outcome) ==
    IF outcome \in {"open_failed", "write_failed"} THEN {<<"error", "save">>} ELSE {}

\* the file after save_server_state, by outcome
save_server_state(file, st, outcome) ==
    IF outcome = "ok" THEN [status |-> "ok", content |-> st]
    ELSE IF outcome = "write_failed" THEN [status |-> "corrupt", content |-> EmptyStore]
    ELSE file

-----------------------------------------------------------------------------
(* Configurations *)

\* the baseline lookups of generate_snapshot_data (line 164) and
\* generate_raw_io_data (lines 68-73) raise KeyError: the server type has no
\* baseline template, or the template lacks one of the rates
config_error(cfg, server_type) ==
    \/ server_type \notin DOMAIN cfg.baseline_templates
    \/ "reads_per_second_baseline" \notin DOMAIN cfg.baseline_templates[server_type]
    \/ "writes_per_second_baseline" \notin DOMAIN cfg.baseline_templates[server_type]

\* the installations explored: a reference_config server with its two
\* default databases, an oltp_production server with one configured
\* database, and a reference_config server followed by an oltp_production
\* server, one configured database each; every baseline rate is non-negative.
\* Two installations have a malformed baseline input: one whose first server
\* is of a type without a baseline template, one whose template lacks the
\* write rate
Configurations ==
    { [server_count |-> 1,
       server_assignments |-> <<"reference_config">>,
       database_names |-> [t \in {} |-> <<>>],
       baseline_templates |-> [t \in ServerTypes |->
            [reads_per_second_baseline |-> 1, writes_per_second_baseline |-> 0]]],
      [server_count |-> 1,
       server_assignments |-> <<"oltp_production">>,
       database_names |-> [t \in {"oltp_production"} |-> <<"PrimaryStore_DB">>],
       baseline_templates |-> [t \in ServerTypes |->
            [reads_per_second_baseline |-> 1, writes_per_second_baseline |-> 1]]],
      [server_count |-> 2,
       server_assignments |-> <<"reference_config", "oltp_production">>,
       database_names |-> [t \in {"reference_config", "oltp_production"} |->
            IF t = "reference_config" THEN <<"ConfigStore_DB">>
            ELSE <<"PrimaryStore_DB">>],
       baseline_templates |-> [t \in ServerTypes |->
            [reads_per_second_baseline |-> 0, writes_per_second_baseline |-> 0]]],
      [server_count |-> 2,
       server_assignments |-> <<"reporting_analytics", "reference_config">>,
       database_names |-> [t \in {"reporting_analytics", "reference_config"} |->
            IF t = "reporting_analytics" THEN <<"Analytics_DB">>
            ELSE <<"ConfigStore_DB">>],
       baseline_templates |-> [t \in {"oltp_production", "reference_config"} |->
            [reads_per_second_baseline |-> 1, writes_per_second_baseline |-> 0]]],
      [server_count |-> 1,
       server_assignments |-> <<"reporting_analytics">>,
       database_names |-> [t \in {"reporting_analytics"} |-> <<"Analytics_DB">>],
       baseline_templates |-> [t \in ServerTypes |->
            [reads_per_second_baseline |-> 1]]] }

Servers == 1..2

-----------------------------------------------------------------------------
(* Actions *)

Init ==
    /\ configs \in Configurations
    /\ state_file = [s \in Servers |-> [status |-> "missing", content |-> EmptyStore]]
    /\ pc = 0
    /\ run_no = 0
    /\ faults = 0
    /\ server_num = 0
    /\ server_state = EmptyStore
    /\ simulation_period = None
    /\ snapshots_created = <<>>
    /\ snapshots = EmptyStore
    /\ main_period = None
    /\ main_result = "None"
    /\ log = {}
    /\ call = [op |-> "none"]

\* mutant: the period main computes is sampled from the last server's state
MainStart_sample_last ==
    /\ pc = 0
    /\ run_no < MaxRuns
    /\ run_no' = run_no + 1
    /\ pc' = 1
    /\ main_period' = calculate_next_simulation_period(
                          load_server_state(configs.server_count))
    /\ main_result' = "None"
    /\ UNCHANGED <<configs, state_file, faults, server_num, server_state,
                   simulation_period, snapshots_created, snapshots, log, call>>

\* main up to its loop over the servers
MainStart ==
    /\ pc = 0
    /\ run_no < MaxRuns
    /\ run_no' = run_no + 1
    /\ pc' = 1
    /\ main_period' = calculate_next_simulation_period(load_server_state(1))
    /\ main_result' = "None"
    /\ UNCHANGED <<configs, state_file, faults, server_num, server_state,
                   simulation_period, snapshots_created, snapshots, log, call>>

\* the choices of one call: where each database raises, and its random jitter
\* (a jitter that is never drawn, or multiplies a zero rate, is fixed). With
\* a malformed baseline input every database raises, at the baseline lookup
\* if not before
Choices(names, loaded, cfg, server_type) ==
    { ch \in [ { names[i] : i \in 1..Len(names) } ->
                 [fail : FailPoints, jr : IoJitter, jw : IoJitter] ] :
        \A n \in DOMAIN ch :
            /\ ch[n].fail = "init" => n \notin DOMAIN loaded
            /\ ch[n].fail \in {"init", "io"} => ch[n].jr = 85 /\ ch[n].jw = 85
            /\ IF config_error(cfg, server_type)
               THEN ch[n].fail \in {"init", "io"}
               ELSE LET baseline == cfg.baseline_templates[server_type]
                    IN  /\ baseline.reads_per_second_baseline = 0 => ch[n].jr = 85
                        /\ baseline.writes_per_second_baseline = 0 => ch[n].jw = 85 }

\* mutant: the period main passed is used, line 264 is left out
server_period_passed(loaded, passed) == passed

\* the period of a call of simulate_server: its parameter simulation_period,
\* which main passed, is overwritten from the store just loaded (line 264)
server_period(loaded, passed) == calculate_next_simulation_period(loaded)

\* one call of simulate_server from main's loop
SimulateServer(s) ==
    /\ pc = s
    /\ LET server_type == configs.server_assignments[s]
           names == get_database_names_for_server_type(server_type, configs)
           loaded == load_server_state(s)
           period == server_period(loaded, main_period)
       IN  \E choice \in Choices(names, loaded, configs, server_type),
              outcome \in SaveOutcomes :
             LET r == process_databases([st |-> loaded, created |-> <<>>,
                                         saved |-> EmptyStore],
                          s, names, 1, server_type, configs, period, choice)
                 raised == Cardinality({n \in DOMAIN choice : choice[n].fail # "none"})
                           + (IF outcome = "ok" THEN 0 ELSE 1)
             IN  /\ faults + raised <= MaxFaults
                 /\ faults' = faults + raised
                 /\ state_file' = [state_file EXCEPT
                        ![s] = save_server_state(state_file[s], r.st, outcome)]
                 /\ server_num' = s
                 /\ server_state' = r.st
                 /\ simulation_period' = period
                 /\ snapshots_created' = r.created
                 /\ snapshots' = r.saved
                 /\ pc' = IF outcome = "mkdir_failed" \/ s = configs.server_count
                          THEN 0 ELSE s + 1
                 /\ main_result' = IF outcome = "mkdir_failed" THEN "False"
                                   ELSE IF s = configs.server_count THEN "True"
                                   ELSE main_result
                 /\ log' = load_warnings(state_file[s])
                           \cup { <<"error", n>> :
                                    n \in {m \in DOMAIN choice : choice[m].fail # "none"} }
                           \cup save_errors(outcome)
    /\ UNCHANGED <<configs, run_no, call,
                   main_period>>

\* fix_simulator_state.reset_server_state(server_num, keep_existing=False)
ResetServerState(s) ==
    /\ pc = 0
    /\ s <= configs.server_count
    /\ state_file[s].status = "ok"
    /\ state_file[s].content # EmptyStore
    /\ faults < MaxFaults
    /\ faults' = faults + 1
    /\ state_file' = [state_file EXCEPT ![s] = [status |-> "ok", content |-> EmptyStore]]
    /\ UNCHANGED <<configs, pc, run_no, server_num, server_state,
                   simulation_period, snapshots_created, snapshots,
                   main_result, log, call,
                   main_period>>

\* mutant: the stuck databases are looked for under the key the simulator
\* writes, last_period
may_1_databases_last_period(state) ==
    { n \in DOMAIN state :
        /\ "last_period" \in DOMAIN state[n]
        /\ state[n].last_period # None
        /\ state[n].last_period.period_end[1] = 0 }

\* the databases fix_simulation_periods finds stuck on May 1st (lines
\* 190-195): those with a last_simulation_period whose period_end holds
\* 2025-05-01
may_1_databases(state) ==
    { n \in DOMAIN state :
        /\ "last_simulation_period" \in DOMAIN state[n]
        /\ state[n].last_simulation_period # None
        /\ state[n].last_simulation_period.period_end[1] = 0 }

\* int((datetime.now() - start_date).total_seconds() / (12 * 3600)) for the
\* times the repair is run at (lines 202-206)
PeriodsPassed == {3, 1100}

\* the period the stuck databases are moved to (lines 209-220)
target_period(periods_passed) ==
    LET start == datetime((6 + 12 * periods_passed) \div 24,
                          (6 + 12 * periods_passed) % 24)
        end == datetime((18 + 12 * periods_passed) \div 24,
                        (18 + 12 * periods_passed) % 24)
    IN  [period_start |-> isoformat(start),
         period_end   |-> isoformat(end),
         period_type  |-> IF start.hour = 6 THEN "day" ELSE "night"]

\* one server's state file after fix_simulation_periods (lines 178-237): a
\* missing file is skipped, an unreadable one reported, and a file is
\* rewritten only if it has stuck databases
fix_server_state(file, periods_passed) ==
    IF file.status # "ok" \/ may_1_databases(file.content) = {}
    THEN file
    ELSE [status |-> "ok",
          content |-> [n \in DOMAIN file.content |->
                          IF n \in may_1_databases(file.content)
                          THEN put(file.content[n], "last_simulation_period",
                                   target_period(periods_passed))
                          ELSE file.content[n]]]

\* fix_simulator_state.fix_simulation_periods(), run between two runs of
\* main; call records the files it examined and the databases it found stuck
FixSimulationPeriods ==
    /\ pc = 0
    /\ \E periods_passed \in PeriodsPassed :
          state_file' = [s \in Servers |->
                            fix_server_state(state_file[s], periods_passed)]
    /\ call' = [op |-> "fix_simulation_periods",
                examined |-> state_file,
                stuck |-> [s \in Servers |->
                              IF state_file[s].status = "ok"
                              THEN may_1_databases(state_file[s].content)
                              ELSE {}]]
    /\ UNCHANGED <<configs, pc, run_no, faults, server_num, server_state,
                   simulation_period, snapshots_created, snapshots,
                   main_period, main_result, log>>

Next ==
    \/ MainStart
    \/ \E s \in Servers : SimulateServer(s)
    \/ \E s \in Servers : ResetServerState(s)

Spec == Init /\ [][Next]_vars

\* runs of main only: no repair script between the runs
NextRuns ==
    \/ MainStart
    \/ \E s \in Servers : SimulateServer(s)

SpecRuns == Init /\ [][NextRuns]_vars

NextRepair ==
    \/ MainStart
    \/ \E s \in Servers : SimulateServer(s)
    \/ FixSimulationPeriods

\* runs of main with the period repair run between them
SpecRepair == Init /\ [][NextRepair]_vars

\* a state file written by an earlier version of the simulator: a metadata
\* wrapper key next to the databases, one of which has completed the first
\* period
legacy_store ==
    [n \in {"metadata", "ConfigStore_DB"} |->
        IF n = "metadata" THEN [version |-> 1]
        ELSE [cumulative_reads |-> 0, cumulative_writes |-> 0,
              growth_pattern |-> "static",
              last_period |-> calculate_next_simulation_period(EmptyStore)]]

\* the state files the first run can find
InitialFiles ==
    { [status |-> "missing", content |-> EmptyStore],
      [status |-> "unreadable", content |-> EmptyStore],
      [status |-> "corrupt", content |-> EmptyStore],
      [status |-> "ok", content |-> [n \in {"metadata"} |-> [version |-> 1]]],
      [status |-> "ok", content |-> legacy_store] }

\* as Init, with any of the initial files for each server of the installation
InitStore ==
    /\ configs \in Configurations
    /\ state_file \in [Servers -> InitialFiles]
    /\ \A s \in Servers : s > configs.server_count => state_file[s].status = "missing"
    /\ pc = 0
    /\ run_no = 0
    /\ faults = 0
    /\ server_num = 0
    /\ server_state = EmptyStore
    /\ simulation_period = None
    /\ snapshots_created = <<>>
    /\ snapshots = EmptyStore
    /\ main_period = None
    /\ main_result = "None"
    /\ log = {}
    /\ call = [op |-> "none"]

\* runs of main on an installation whose state files exist already
SpecStore == InitStore /\ [][NextRuns]_vars

\* the periods the growth-model functions are called with
Periods ==
    { calculate_next_simulation_period(EmptyStore),
      calculate_next_simulation_period(
          [n \in {"ConfigStore_DB"} |->
              [last_period |-> calculate_next_simulation_period(EmptyStore)]]) }

\* values current_size_gb takes, in millionths of a GB: sizes drawn at
\* initialization and sizes near the minimum and the 50 GB mark
CurrentSizes ==
    { 5000000, 10000000, 10000400, 49995000, 49999499, 49999500, 50000001,
      300000000, 333333333, 500000000 }

\* a direct call of generate_raw_size_data
SizeCall ==
    /\ call.op = "none"
    /\ \E current_size \in CurrentSizes, growth_pattern \in GrowthPatterns \cup {"legacy"},
          period \in Periods, server_type \in ServerTypes :
         LET db_state == [current_size_gb |-> current_size,
                          growth_pattern |-> growth_pattern]
         IN  \E d \in new_sizes(db_state, period, server_type) :
                \E size_data \in size_record(d.new_size, server_type) :
                    call' = [op |-> "generate_raw_size_data", db_state |-> db_state,
                             period |-> period, server_type |-> server_type,
                             growth |-> d.growth, variance |-> d.variance,
                             new_size |-> d.new_size, result |-> size_data]
    /\ UNCHANGED <<configs, state_file, pc, run_no, faults, server_num, server_state,
                   simulation_period, snapshots_created, snapshots, main_result,
                   log,
                   main_period>>

\* a direct call of initialize_database_state
InitializeCall ==
    /\ call.op = "none"
    /\ \E num \in 1..3, server_type \in ServerTypes,
          database_name \in {"PrimaryStore_DB", "CustomerCore_DB", "ConfigStore_DB"} :
         \E db_state \in initial_sizes(num, database_name, server_type) :
            call' = [op |-> "initialize_database_state", server_num |-> num,
                     database_name |-> database_name, server_type |-> server_type,
                     result |-> db_state]
    /\ UNCHANGED <<configs, state_file, pc, run_no, faults, server_num, server_state,
                   simulation_period, snapshots_created, snapshots, main_result,
                   log,
                   main_period>>

\* the tables initialize_database_state creates for a server type (lines
\* 125-144), after any number of periods: daily_growth and has_cleanup as
\* drawn, rows from the floor of 1000 up to the largest initial count
TableStates(server_type) ==
    [rows : {1000, 1001, 2000, 10000, 1000000},
     daily_growth : IF server_type = "reference_config" THEN {1, 10}
                    ELSE {1000, 10000},
     has_cleanup : IF server_type = "reference_config" THEN {FALSE}
                   ELSE BOOLEAN]

\* a direct call of generate_raw_table_data, for one table
TableCall ==
    /\ call.op = "none"
    /\ \E server_type \in ServerTypes, period \in Periods,
          growth_pattern \in {"stable", "broken_cleanup", "no_retention", "static"},
          cleanup_history \in {initial_cleanup_history,
                               [last_cleanup_success |-> FALSE, failed_cleanups |-> 1,
                                periods_since_cleanup |-> 0]} :
         \E table_state \in TableStates(server_type) :
            \E table \in generate_raw_table_data(table_state, cleanup_history,
                                                 server_type, period, growth_pattern) :
                call' = [op |-> "generate_raw_table_data", table_state |-> table_state,
                         cleanup_history |-> cleanup_history,
                         server_type |-> server_type, period |-> period,
                         growth_pattern |-> growth_pattern, result |-> table]
    /\ UNCHANGED <<configs, state_file, pc, run_no, faults, server_num, server_state,
                   simulation_period, snapshots_created, snapshots, main_result,
                   log,
                   main_period>>

\* the database states generate_raw_autogrowth_events is called with: each
\* growth pattern, and states of a pattern the function does not know
EventDbStates ==
    { [growth_pattern |-> g, server_type |-> "oltp_production"] :
        g \in GrowthPatterns }
    \cup { [growth_pattern |-> "legacy", server_type |-> t] : t \in ServerTypes }

\* a direct call of generate_raw_autogrowth_events
EventsCall ==
    /\ call.op = "none"
    /\ \E num \in 1..2, database_name \in {"PrimaryStore_DB", "ConfigStore_DB"},
          db_state \in EventDbStates, period \in Periods :
         \E n \in num_events(num, database_name, db_state, period) :
            \E generated \in generated_events(num, database_name, period, n) :
                call' = [op |-> "generate_raw_autogrowth_events", server_num |-> num,
                         database_name |-> database_name, db_state |-> db_state,
                         period |-> period, num_events |-> n,
                         generated |-> generated,
                         result |-> generate_raw_autogrowth_events(generated)]
    /\ UNCHANGED <<configs, state_file, pc, run_no, faults, server_num, server_state,
                   simulation_period, snapshots_created, snapshots, main_result,
                   log,
                   main_period>>

NextGrowth ==
    \/ SizeCall
    \/ InitializeCall
    \/ TableCall
    \/ EventsCall

\* before any call: the installation with the two servers, no run made
InitGrowth ==
    /\ Init
    /\ configs.server_count = 2

\* the growth-model functions called on their own
SpecGrowth == InitGrowth /\ [][NextGrowth]_vars

-----------------------------------------------------------------------------
(* Properties *)

\* the stores of a state: what each server's file loads to, and the store
\* the latest call of simulate_server left in memory
Stores == { load_server_state(s) : s \in 1..configs.server_count } \cup {server_state}

HasPeriod(st) == \E n \in DOMAIN st : st[n].last_period # None

\* hours since 2025-05-01T00:00 of an ISO string
Hours(iso) == iso[1] * 24 + iso[2]

\* the latest recorded period_end of a store that has one, in hours
MaxEndHours(st) ==
    LET ends == { Hours(st[n].last_period.period_end) :
                    n \in { m \in DOMAIN st : st[m].last_period # None } }
    IN  CHOOSE h \in ends : \A g \in ends : g <= h

\* [2025-05-01T06:00:00, 2025-05-01T18:00:00), day
EpochPeriod == [period_start |-> <<0, 6>>, period_end |-> <<0, 18>>,
                period_type |-> "day"]

\* C1: with no store, an empty store, or a store in which no database has a
\* recorded period, calculate_next_simulation_period returns the epoch
\* window 2025-05-01 06:00 to 18:00 with type day.
C1_EpochWindow ==
    /\ calculate_next_simulation_period(EmptyStore) = EpochPeriod
    /\ \A st \in Stores :
         ~HasPeriod(st) => calculate_next_simulation_period(st) = EpochPeriod

\* a saved store that holds databases, none of which has a period yet
C1_Witness ==
    /\ state_file[1].status = "ok"
    /\ DOMAIN state_file[1].content # {}
    /\ ~HasPeriod(state_file[1].content)

\* C2: from a store whose latest period_end E has hour 6 the next period is
\* [E, E + 12h) of type day; from one whose latest period_end E has hour 18
\* it is [E, 06:00 of the next calendar day) of type night, starting at E.
C2_NextFromLatest ==
    \A st \in Stores :
        HasPeriod(st) =>
            LET E == MaxEndHours(st)
                p == calculate_next_simulation_period(st)
            IN  /\ E % 24 = 6 =>
                    /\ Hours(p.period_start) = E
                    /\ Hours(p.period_end) = E + 12
                    /\ p.period_type = "day"
                /\ E % 24 = 18 =>
                    /\ Hours(p.period_start) = E
                    /\ p.period_end = <<(E \div 24) + 1, 6>>
                    /\ p.period_type = "night"

\* the file's latest period ends at 18:00 while the store in memory, whose
\* save failed, has its latest period ending at 06:00
C2_Witness ==
    /\ state_file[1].status = "ok"
    /\ HasPeriod(state_file[1].content)
    /\ MaxEndHours(state_file[1].content) % 24 = 18
    /\ HasPeriod(server_state)
    /\ MaxEndHours(server_state) % 24 = 6

\* C3: starting from an empty store and recording each returned period as
\* the latest, the N-th period ends 12*N hours after the epoch start, at
\* hour 6 or 18, and the types alternate day, night, day, ... from day.
C3_ChainAlternates ==
    (faults = 0 /\ server_num # 0 /\ pc = 0) =>
        LET p == simulation_period
            N == run_no
        IN  /\ Hours(p.period_end) = 6 + 12 * N
            /\ p.period_end[2] \in {6, 18}
            /\ p.period_type = (IF N % 2 = 1 THEN "day" ELSE "night")

\* the third period of an undisturbed chain: a day period again
C3_Witness ==
    /\ faults = 0
    /\ run_no = 3
    /\ pc = 0
    /\ simulation_period = [period_start |-> <<1, 6>>, period_end |-> <<1, 18>>,
                            period_type |-> "day"]

AllPeriods ==
    (IF simulation_period = None THEN {} ELSE {simulation_period})
    \cup UNION { { st[n].last_period :
                     n \in { m \in DOMAIN st : st[m].last_period # None } } :
                 st \in Stores }
    \cup { [period_start |-> snapshots[n].period_start,
            period_end |-> snapshots[n].period_end,
            period_type |-> snapshots[n].period_type] : n \in DOMAIN snapshots }

\* C5: every period produced from an empty store by runs of simulate_server
\* ends exactly 12 hours after it starts and has type day or night.
C5_TwelveHours ==
    \A p \in AllPeriods :
        /\ Hours(p.period_end) - Hours(p.period_start) = 12
        /\ p.period_type \in {"day", "night"}

\* a night period, which crosses midnight, is on file and in a snapshot
C5_Witness ==
    /\ state_file[1].status = "ok"
    /\ \E n \in DOMAIN state_file[1].content \cap DOMAIN snapshots :
         /\ state_file[1].content[n].last_period =
               [period_start |-> <<0, 18>>, period_end |-> <<1, 6>>,
                period_type |-> "night"]
         /\ snapshots[n].period_end = <<1, 6>>

\* the elements of a list
Range(seq) == { seq[i] : i \in 1..Len(seq) }

\* the step of server s's call of simulate_server
SimulateStep(s) == pc = s /\ pc' # pc

\* C6: a call of simulate_server computes its period once, from the latest
\* period_end over all databases of the store it loads, and every database
\* it processes successfully, one created in that call included, has that
\* period recorded as its last_period.
C6_OnePeriodPerRun ==
    [][\A s \in Servers :
         SimulateStep(s) =>
            LET loaded == load_server_state(s)
            IN  /\ HasPeriod(loaded) =>
                      Hours(simulation_period'.period_start) = MaxEndHours(loaded)
                /\ ~HasPeriod(loaded) => simulation_period' = EpochPeriod
                /\ \A n \in Range(snapshots_created') :
                      server_state'[n].last_period = simulation_period']_vars

\* the third period: a database that was never processed before and one with
\* a history both completed the call and have the call's period
C6_Witness ==
    /\ pc = 0
    /\ Len(snapshots_created) = 2
    /\ simulation_period # None
    /\ simulation_period.period_start = <<1, 6>>
    /\ \E a, b \in DOMAIN snapshots :
         /\ snapshots[a].io.cumulative_reads = snapshots[a].io.reads
         /\ snapshots[b].io.cumulative_reads > snapshots[b].io.reads
         /\ server_state[a].last_period = server_state[b].last_period

\* C7 as claimed: after every call of simulate_server the latest period_end
\* of the server's store is exactly 12 hours after the latest period_end of
\* the store the call loaded, and the epoch day's 18:00 after a first call.
C7_ExactlyOneStep ==
    [][\A s \in Servers :
         SimulateStep(s) =>
            LET loaded == load_server_state(s)
            IN  /\ HasPeriod(server_state')
                /\ MaxEndHours(server_state') =
                     (IF HasPeriod(loaded) THEN MaxEndHours(loaded) + 12 ELSE 18)]_vars

\* C7 (amended): a call of simulate_server advances the store it loaded by
\* one 12-hour step if at least one database reaches the state update of
\* generate_snapshot_data, and by no step otherwise; never by more. The file
\* it leaves is the advanced store, the file as it was, or an unreadable one.
C7_AtMostOneStep ==
    [][\A s \in Servers :
         SimulateStep(s) =>
            LET loaded == load_server_state(s)
                advanced == \E n \in DOMAIN server_state' :
                                server_state'[n].last_period = simulation_period'
            IN  /\ advanced =>
                      /\ HasPeriod(server_state')
                      /\ MaxEndHours(server_state') =
                           (IF HasPeriod(loaded) THEN MaxEndHours(loaded) + 12
                            ELSE 18)
                /\ ~advanced =>
                      /\ HasPeriod(server_state') <=> HasPeriod(loaded)
                      /\ HasPeriod(loaded) =>
                           MaxEndHours(server_state') = MaxEndHours(loaded)
                /\ \/ state_file'[s] = [status |-> "ok", content |-> server_state']
                   \/ state_file'[s] = state_file[s]
                   \/ state_file'[s].status = "corrupt"]_vars

\* the first call recorded no period, so the second call used the epoch
\* window again and advanced the store to 18:00 of the epoch day
C7_Witness ==
    /\ pc = 0
    /\ run_no = 2
    /\ simulation_period = EpochPeriod
    /\ HasPeriod(server_state)
    /\ MaxEndHours(server_state) = 18

\* C8: a database skipped by an error in one call while a sibling completed
\* that call, and processed successfully in the server's next call, has the
\* same last_period as every sibling processed in that next call, and that
\* period is the store's latest: it is not one period behind.
C8_LockstepAfterSkip ==
    [][\A s \in Servers :
         (SimulateStep(s) /\ server_num = s) =>
            \A e \in Range(get_database_names_for_server_type(
                              configs.server_assignments[s], configs)) :
                ( /\ e \notin Range(snapshots_created)
                  /\ snapshots_created # <<>>
                  /\ e \in Range(snapshots_created') )
                => /\ \A sib \in Range(snapshots_created') :
                        server_state'[e].last_period = server_state'[sib].last_period
                   /\ Hours(server_state'[e].last_period.period_end)
                        = MaxEndHours(server_state')]_vars

\* the only error so far skipped a database in the first call, before its
\* I/O; in the second call it and its sibling both completed the night period
C8_Witness ==
    /\ pc = 0
    /\ run_no = 2
    /\ faults = 1
    /\ Len(snapshots_created) = 2
    /\ simulation_period.period_type = "night"
    /\ \E a, b \in DOMAIN snapshots :
         /\ snapshots[a].io.cumulative_reads = snapshots[a].io.reads
         /\ snapshots[b].io.cumulative_reads > snapshots[b].io.reads
         /\ server_state[a].last_period = simulation_period
         /\ server_state[b].last_period = simulation_period

\* C9 as claimed: across the calls of simulate_server for a server, failed
\* loads and saves included, the period_start of a call is never earlier
\* than that of the previous call, and a database processed by both calls
\* does not end the later one with an earlier period_end.
C9_Monotonic ==
    [][\A s \in Servers :
         (SimulateStep(s) /\ server_num = s) =>
            /\ Hours(simulation_period'.period_start)
                 >= Hours(simulation_period.period_start)
            /\ \A n \in DOMAIN snapshots \cap DOMAIN snapshots' :
                 Hours(server_state'[n].last_period.period_end)
                    >= Hours(server_state[n].last_period.period_end)]_vars

\* C9 (amended): a call never goes back behind the store it loads: its
\* period_start is not earlier than any period_end recorded there, and every
\* database of the loaded store keeps a period_end at least as late. If the
\* file it loads is readable and still records a period, or is the store the
\* previous call left, its period_start is not earlier than the previous
\* call's. (A call that finds the file missing or unreadable restarts at the
\* epoch window.)
C9_MonotonicWhenLoaded ==
    [][\A s \in Servers :
         SimulateStep(s) =>
            LET loaded == load_server_state(s)
            IN  /\ \A n \in DOMAIN loaded :
                     loaded[n].last_period # None =>
                        /\ Hours(simulation_period'.period_start)
                             >= Hours(loaded[n].last_period.period_end)
                        /\ n \in DOMAIN server_state'
                        /\ server_state'[n].last_period # None
                        /\ Hours(server_state'[n].last_period.period_end)
                             >= Hours(loaded[n].last_period.period_end)
                /\ ( /\ server_num = s
                     /\ state_file[s].status = "ok"
                     /\ HasPeriod(loaded) \/ loaded = server_state )
                   => Hours(simulation_period'.period_start)
                        >= Hours(simulation_period.period_start)]_vars

\* the third call used the second period again: an earlier call had not
\* advanced the file, and the file now holds the store of this call
C9_Witness ==
    /\ pc = 0
    /\ run_no = 3
    /\ faults > 0
    /\ simulation_period # None
    /\ simulation_period.period_start = <<0, 18>>
    /\ state_file[1] = [status |-> "ok", content |-> server_state]
    /\ HasPeriod(server_state)

\* C10 as claimed: a database processed by two consecutive calls of
\* simulate_server does not end the later one with lower cumulative counters.
C10_NonDecreasing ==
    [][\A s \in Servers :
         (SimulateStep(s) /\ server_num = s) =>
            \A n \in DOMAIN snapshots \cap DOMAIN snapshots' :
                /\ server_state'[n].cumulative_reads >= server_state[n].cumulative_reads
                /\ server_state'[n].cumulative_writes >= server_state[n].cumulative_writes]_vars

\* C10 (amended): a call adds the period's reads and writes, both >= 0, to
\* the counters of the store it loads: no database of the loaded store ends
\* with lower counters, a database it processes ends with the loaded
\* counters (0 for a new one) plus the period's counts, the snapshot's io
\* section reports the stored values, and the file never replaces a
\* database's counters by lower ones.
C10_AddsToLoaded ==
    [][\A s \in Servers :
         SimulateStep(s) =>
            LET loaded == load_server_state(s)
            IN  /\ \A n \in DOMAIN loaded :
                     /\ n \in DOMAIN server_state'
                     /\ server_state'[n].cumulative_reads >= loaded[n].cumulative_reads
                     /\ server_state'[n].cumulative_writes >= loaded[n].cumulative_writes
                /\ \A n \in DOMAIN snapshots' :
                     LET io == snapshots'[n].io
                         r0 == IF n \in DOMAIN loaded THEN loaded[n].cumulative_reads ELSE 0
                         w0 == IF n \in DOMAIN loaded THEN loaded[n].cumulative_writes ELSE 0
                     IN  /\ io.reads >= 0 /\ io.writes >= 0
                         /\ io.cumulative_reads = r0 + io.reads
                         /\ io.cumulative_writes = w0 + io.writes
                         /\ server_state'[n].cumulative_reads = io.cumulative_reads
                         /\ server_state'[n].cumulative_writes = io.cumulative_writes
                /\ \A n \in DOMAIN state_file[s].content \cap DOMAIN state_file'[s].content :
                     /\ state_file'[s].content[n].cumulative_reads
                          >= state_file[s].content[n].cumulative_reads
                     /\ state_file'[s].content[n].cumulative_writes
                          >= state_file[s].content[n].cumulative_writes]_vars

\* a database whose counters, on file and in its snapshot, hold this period's
\* reads and writes on top of earlier ones
C10_Witness ==
    /\ state_file[1].status = "ok"
    /\ \E n \in DOMAIN snapshots \cap DOMAIN state_file[1].content :
         /\ snapshots[n].io.reads > 0
         /\ snapshots[n].io.writes > 0
         /\ snapshots[n].io.cumulative_reads > snapshots[n].io.reads
         /\ snapshots[n].io.cumulative_writes > snapshots[n].io.writes
         /\ state_file[1].content[n].cumulative_reads = snapshots[n].io.cumulative_reads
         /\ state_file[1].content[n].cumulative_writes = snapshots[n].io.cumulative_writes

\* C11: in every result of generate_raw_size_data, for each of the three data
\* ratios, data_file_gb + log_file_gb differs from total_gb by at most 0.001
\* GB (one unit of the 3-decimal rounding); the sizes of a freshly
\* initialized state add up to current_size_gb within the same 0.001 GB.
C11_SizeSplit ==
    /\ call.op = "generate_raw_size_data" =>
          LET r == call.result
              diff == r.data_file_gb + r.log_file_gb - r.total_gb
          IN  -1 <= diff /\ diff <= 1
    /\ call.op = "initialize_database_state" =>
          LET r == call.result
              diff == r.data_file_gb + r.log_file_gb - r.current_size_gb
          IN  -10 <= diff /\ diff <= 10

\* a reference_config size whose rounded parts add up to 0.001 GB more than
\* the rounded total
C11_Witness ==
    /\ call.op = "generate_raw_size_data"
    /\ call.server_type = "reference_config"
    /\ call.result.data_file_gb + call.result.log_file_gb = call.result.total_gb + 1

\* C16: for growth_pattern stable, current_size_gb 300, oltp_production and a
\* day period, generate_raw_size_data returns total_gb within [269.1, 331.1]
\* and file_count 4, whatever is drawn.
C16_StableScenario ==
    ( /\ call.op = "generate_raw_size_data"
      /\ call.db_state = [current_size_gb |-> 300000000, growth_pattern |-> "stable"]
      /\ call.server_type = "oltp_production"
      /\ call.period.period_type = "day" )
    => /\ 269100 <= call.result.total_gb
       /\ call.result.total_gb <= 331100
       /\ call.result.file_count = 4

\* the scenario with the largest growth drawn: 0.5 GB times 1.1
C16_Witness ==
    /\ call.op = "generate_raw_size_data"
    /\ call.db_state = [current_size_gb |-> 300000000, growth_pattern |-> "stable"]
    /\ call.server_type = "oltp_production"
    /\ call.period.period_type = "day"
    /\ call.result.total_gb = 300550

\* C12: after a period a table has at least 1000 rows, and the rows a cleanup
\* deletes are never negative and never more than half of the rows the table
\* had before the period, for every pattern and every draw.
C12_RowsFloorAndCap ==
    call.op = "generate_raw_table_data" =>
        /\ call.result.rows >= 1000
        /\ call.result.rows_deleted >= 0
        /\ 2 * call.result.rows_deleted <= call.table_state.rows

\* a cleanup capped at half of a table's 1000 rows, after which the floor of
\* 1000 rows applies
C12_Witness ==
    /\ call.op = "generate_raw_table_data"
    /\ call.result.cleanup_occurred
    /\ call.table_state.rows = 1000
    /\ call.result.rows_deleted = 500
    /\ call.result.rows_added < call.result.rows_deleted
    /\ call.result.rows = 1000

\* t1 is not later than t2, for datetimes with a second of the day
chrono_le(t1, t2) ==
    \/ t1.ordinal < t2.ordinal
    \/ /\ t1.ordinal = t2.ordinal
       /\ \/ t1.second_of_day < t2.second_of_day
          \/ /\ t1.second_of_day = t2.second_of_day
             /\ t1.microsecond <= t2.microsecond

\* a period boundary as a datetime with a second of the day
boundary(iso) == add_timedelta(fromisoformat(iso), [seconds |-> 0, microseconds |-> 0])

\* C13: every autogrowth event generated for a period has a timestamp t with
\* period_start <= t < period_end; none is stamped at period_end.
C13_HalfOpen ==
    call.op = "generate_raw_autogrowth_events" =>
        \A i \in 1..Len(call.result) :
            /\ chrono_le(boundary(call.period.period_start), call.result[i].event_time)
            /\ ~chrono_le(boundary(call.period.period_end), call.result[i].event_time)

\* C14: the list generate_raw_autogrowth_events returns holds the events
\* generated, in non-decreasing chronological order: the order of the ISO
\* strings it sorts by is the order of the times, with or without a fraction
\* of a second.
C14_SortedChronologically ==
    call.op = "generate_raw_autogrowth_events" =>
        /\ Len(call.result) = Len(call.generated)
        /\ \E p \in [1..Len(call.result) -> 1..Len(call.result)] :
              /\ \A i, j \in 1..Len(call.result) : p[i] = p[j] => i = j
              /\ \A i \in 1..Len(call.result) : call.result[i] = call.generated[p[i]]
        /\ \A i \in 1..(Len(call.result) - 1) :
              chrono_le(call.result[i].event_time, call.result[i + 1].event_time)

\* an event on a full second sorted in front of a later event of the same
\* second that was generated before it
C14_Witness ==
    /\ call.op = "generate_raw_autogrowth_events"
    /\ Len(call.result) = 2
    /\ call.generated[1] = call.result[2]
    /\ call.result[1].event_time.microsecond = 0
    /\ call.result[2].event_time.microsecond > 0
    /\ call.result[1].event_time.second_of_day = call.result[2].event_time.second_of_day

DatabaseNames(s) ==
    Range(get_database_names_for_server_type(configs.server_assignments[s], configs))

\* C17: load_server_state returns the empty map when the state file is
\* missing, unreadable or not valid JSON, and never returns a top-level
\* metadata key; the call of simulate_server then runs as a first run: its
\* period is the epoch window, every database it processes is a freshly
\* initialized one, and without a later error it processes every configured
\* database, saves the state and main goes on.
C17_LoadDegrades ==
    [][\A s \in Servers :
         SimulateStep(s) =>
            LET loaded == load_server_state(s)
            IN  /\ "metadata" \notin DOMAIN loaded
                /\ "metadata" \notin DOMAIN server_state'
                /\ state_file[s].status # "ok" =>
                      /\ loaded = EmptyStore
                      /\ simulation_period' = EpochPeriod
                      /\ DOMAIN server_state' \subseteq DatabaseNames(s)
                      /\ \A n \in DOMAIN snapshots' :
                            /\ snapshots'[n].io.cumulative_reads = snapshots'[n].io.reads
                            /\ snapshots'[n].io.cumulative_writes = snapshots'[n].io.writes
                            /\ server_state'[n].growth_pattern =
                                 initial_growth_pattern(s, n, configs.server_assignments[s])
                            /\ server_state'[n].last_period = EpochPeriod
                      /\ faults' = faults =>
                            /\ Range(snapshots_created') = DatabaseNames(s)
                            /\ state_file'[s] = [status |-> "ok", content |-> server_state']
                            /\ main_result' # "False"]_vars

\* the first run found a state file it could not read or parse, logged the
\* warning, and completed the epoch period for all databases of the server
C17_Witness ==
    /\ run_no = 1
    /\ pc = 0
    /\ <<"warning", "load">> \in log
    /\ simulation_period = EpochPeriod
    /\ Len(snapshots_created) = 2
    /\ main_result = "True"
    /\ state_file[1] = [status |-> "ok", content |-> server_state]

\* C18: no failure of save_server_state, whether creating the directory,
\* opening the file or writing the state, propagates: simulate_server
\* returns its list and main does not fail.
C18_SaveBestEffort ==
    [][\A s \in Servers : SimulateStep(s) => main_result' # "False"]_vars

\* C19: a database whose processing raises, at any step, is logged and left
\* out of the returned list, while every other configured database is
\* processed and listed, in the configured order; unless saving fails the
\* state is saved at the end of the call, and unless creating the state
\* directory fails main goes on to the next server.
C19_EntityErrorsSkipped ==
    [][\A s \in Servers :
         SimulateStep(s) =>
            /\ \A n \in DatabaseNames(s) :
                  <<"error", n>> \in log' <=> n \notin Range(snapshots_created')
            /\ Range(snapshots_created') \subseteq DatabaseNames(s)
            /\ DOMAIN snapshots' = Range(snapshots_created')
            /\ (<<"error", "save">> \notin log' /\ main_result' # "False") =>
                  state_file'[s] = [status |-> "ok", content |-> server_state']
            /\ main_result' # "False" =>
                  pc' = (IF s = configs.server_count THEN 0 ELSE s + 1)]_vars

\* the first database of a server raised; the second was processed and
\* listed, and the state of both was saved
C19_Witness ==
    /\ <<"error", "ReferenceData_DB">> \in log
    /\ snapshots_created = <<"ConfigStore_DB">>
    /\ "ReferenceData_DB" \in DOMAIN server_state
    /\ state_file[1] = [status |-> "ok", content |-> server_state]
    /\ main_result = "True"

\* C20: a call of simulate_server leaves the growth_pattern of every
\* database of the loaded store as it was, gives a database it creates the
\* pattern of initialize_database_state, and keeps every loaded database in
\* the store with counters not below the loaded ones (no re-initialization);
\* the state file never shows a database with a changed growth_pattern.
C20_PatternImmutable ==
    [][\A s \in Servers :
         SimulateStep(s) =>
            LET loaded == load_server_state(s)
            IN  /\ \A n \in DOMAIN loaded :
                      /\ n \in DOMAIN server_state'
                      /\ server_state'[n].growth_pattern = loaded[n].growth_pattern
                      /\ server_state'[n].cumulative_reads >= loaded[n].cumulative_reads
                      /\ server_state'[n].cumulative_writes >= loaded[n].cumulative_writes
                /\ \A n \in DOMAIN server_state' \ DOMAIN loaded :
                      server_state'[n].growth_pattern =
                         initial_growth_pattern(s, n, configs.server_assignments[s])
                /\ \A n \in DOMAIN state_file[s].content \cap DOMAIN state_file'[s].content :
                      n # "metadata" =>
                         state_file'[s].content[n].growth_pattern
                            = state_file[s].content[n].growth_pattern]_vars

\* server 2's PrimaryStore_DB, created with the pattern growing_fast, still
\* has it on file after its second period
C20_Witness ==
    /\ configs.server_count = 2
    /\ state_file[2].status = "ok"
    /\ "PrimaryStore_DB" \in DOMAIN state_file[2].content
    /\ state_file[2].content["PrimaryStore_DB"].growth_pattern = "growing_fast"
    /\ state_file[2].content["PrimaryStore_DB"].last_period # None
    /\ state_file[2].content["PrimaryStore_DB"].last_period.period_type = "night"

C29_PerServerPeriod ==
    [][\A s \in Servers :
         SimulateStep(s) =>
            simulation_period' = calculate_next_simulation_period(load_server_state(s))]_vars

\* Server1's state was lost, so main computed the epoch period and Server1
\* restarted there, while Server2 went on with its night period in the
\* same run
C29_Witness ==
    /\ run_no >= 2
    /\ server_num = 2
    /\ main_period = EpochPeriod
    /\ simulation_period # main_period
    /\ simulation_period.period_type = "night"
    /\ state_file[1].status = "ok"
    /\ \E n \in DOMAIN state_file[1].content :
          state_file[1].content[n].last_period = EpochPeriod

\* db_state after has everything db_state before had accumulated: counters
\* not lower, and a last_period that ends no earlier
accumulated(before, after) ==
    /\ after.cumulative_reads >= before.cumulative_reads
    /\ after.cumulative_writes >= before.cumulative_writes
    /\ after.growth_pattern = before.growth_pattern
    /\ before.last_period # None =>
          /\ after.last_period # None
          /\ total_hours(fromisoformat(after.last_period.period_end))
                >= total_hours(fromisoformat(before.last_period.period_end))

\* C21 as stated: a call of simulate_server that finds a database in the
\* state file leaves a state file that holds it, with its accumulated state.
C21_EntitiesKept ==
    [][\A s \in Servers :
         (SimulateStep(s) /\ state_file[s].status = "ok") =>
            /\ state_file'[s].status = "ok"
            /\ \A n \in DOMAIN state_file[s].content \ {"metadata"} :
                  /\ n \in DOMAIN state_file'[s].content
                  /\ accumulated(state_file[s].content[n],
                                 state_file'[s].content[n])]_vars

\* C21, amended: a call of simulate_server that finds a database in the
\* state file leaves a state file that holds it with its accumulated state,
\* unless writing the file failed midway and left an unreadable file.
C21_EntitiesKeptUnlessWriteFails ==
    [][\A s \in Servers :
         (SimulateStep(s) /\ state_file[s].status = "ok") =>
            \/ /\ state_file'[s].status = "corrupt"
               /\ <<"error", "save">> \in log'
            \/ /\ state_file'[s].status = "ok"
               /\ \A n \in DOMAIN state_file[s].content \ {"metadata"} :
                     /\ n \in DOMAIN state_file'[s].content
                     /\ accumulated(state_file[s].content[n],
                                    state_file'[s].content[n])]_vars

\* after the second run the state file holds the database the first run
\* created, with the counters of both periods and the night period recorded
C21_Witness ==
    /\ run_no = 2
    /\ pc = 0
    /\ state_file[1].status = "ok"
    /\ \E n \in DOMAIN state_file[1].content :
          /\ state_file[1].content[n].last_period # None
          /\ state_file[1].content[n].last_period.period_type = "night"
          /\ state_file[1].content[n].cumulative_reads > 43200

\* C27: a database of the loaded store whose processing raised is saved as it
\* was loaded: counters and last_period unchanged.
C27_FailedEntityUnchanged ==
    [][\A s \in Servers :
         (SimulateStep(s) /\ state_file'[s] = [status |-> "ok", content |-> server_state']) =>
            \A n \in DOMAIN load_server_state(s) :
               <<"error", n>> \in log' =>
                  state_file'[s].content[n] = load_server_state(s)[n]]_vars

\* C28: a saved state records the period of the call as the last_period of
\* a database only if the call wrote the database's snapshot for the period.
C28_RecordedOnlyIfSaved ==
    [][\A s \in Servers :
         (SimulateStep(s) /\ state_file'[s] = [status |-> "ok", content |-> server_state']) =>
            \A n \in DOMAIN state_file'[s].content :
               state_file'[s].content[n].last_period = simulation_period' =>
                  /\ n \in DOMAIN snapshots'
                  /\ snapshots'[n].period_end = simulation_period'.period_end]_vars

\* lo <= g <= hi
between(g, lo, hi) == lo <= g /\ g <= hi

\* C24: the growth generate_raw_size_data draws lies in the range of the
\* growth pattern and period type (thousandths of a GB), the variance in
\* [0.9, 1.1], and new_size is the current size plus their product, floored
\* at the minimum; the result is one generate_raw_size_data can return.
C24_DeltaRanges ==
    call.op = "generate_raw_size_data" =>
        LET g == call.growth
            p == call.db_state.growth_pattern
            night == call.period.period_type = "night"
        IN  /\ p = "stable" => between(g, -500, 500)
            /\ p = "no_retention" => between(g, 500, 2000)
            /\ p = "growing_fast" => between(g, 2000, 5000)
            /\ p = "broken_cleanup" => between(g, 1000, 3000) \/ between(g, -1000, 500)
            /\ p = "archive_failure" =>
                  IF night THEN between(g, 5000, 15000) ELSE between(g, 500, 2000)
            /\ p = "etl_cycle" =>
                  \/ night /\ between(g, 5000, 10000)
                  \/ between(g, -8000, -3000)
                  \/ between(g, -500, 500)
            /\ p = "static" => between(g, -10, 10)
            /\ between(call.variance, 900, 1100)
            /\ call.new_size = max(min_size(call.server_type),
                                   call.db_state.current_size_gb + g * call.variance)
            /\ call.result \in generate_raw_size_data(call.db_state, call.period,
                                                       call.server_type)

\* an etl_cycle database drew the largest ETL load, 10 GB, at night and the
\* largest variance, and grew by 11 GB
C24_Witness ==
    /\ call.op = "generate_raw_size_data"
    /\ call.db_state.growth_pattern = "etl_cycle"
    /\ call.period.period_type = "night"
    /\ call.growth = 10000
    /\ call.variance = 1100
    /\ call.new_size = call.db_state.current_size_gb + 11000000

\* C25: file_count is 2 exactly when the reported total_gb is below 50 and 4
\* exactly when it is 50 or more, and total_gb is not below the minimum of
\* the server type; stated for the calls whose new_size is not halfway
\* between two thousandths, where the rounding of total_gb is determined.
C25_FileCountByReportedSize ==
    (call.op = "generate_raw_size_data" /\ call.new_size % 1000 # 500) =>
        /\ call.result.file_count = 2 <=> call.result.total_gb < 50000
        /\ call.result.file_count = 4 <=> call.result.total_gb >= 50000
        /\ call.result.total_gb * 1000 >= min_size(call.server_type)

C22_ConfigErrorFatal ==
    [][\A s \in Servers :
         (SimulateStep(s) /\ config_error(configs, configs.server_assignments[s])) =>
            /\ main_result' = "False"
            /\ snapshots' = EmptyStore
            /\ snapshots_created' = <<>>]_vars

====
